---- MODULE Spec2Model ----
(***************************************************************************)
(* Model of app.py: the SQLite-backed message log and usage ledger, and    *)
(* the /chat turn that ties them to the OpenAI call.                        *)
(*                                                                         *)
(* Money is counted in micro-dollars (1e-6 $), so that every cost the      *)
(* program computes is an exact integer and round(x, 5) is a rounding to   *)
(* the nearest multiple of 10.                                             *)
(***************************************************************************)
EXTENDS Integers, Sequences, FiniteSets, TLC

(* ------------------------------ bounds -------------------------------- *)
NumWorkers == 2      \* concurrent request threads
NumCallers == 2      \* concurrent direct callers of the store / ledger
MaxTurns == 2        \* /chat requests accepted in a behaviour
MaxCalls == 3        \* direct add_message_to_db calls in a behaviour
MaxRecords == 2      \* direct record_usage calls in a behaviour
MaxLimit == 4        \* largest limit passed to get_conversation_messages
MaxTokens == 1       \* most tokens in all of a direct record_usage call

(* ------------------------- program constants --------------------------- *)
GPT4_PROMPT_COST_PER_1K == 30000        \* 0.03 $ in micro-dollars
GPT4_COMPLETION_COST_PER_1K == 60000    \* 0.06 $ in micro-dollars
ChatWindowLimit == 10                   \* limit=10 in chat()
HTTP_OK == 200
HTTP_ERROR == 500

Min(a, b) == IF a < b THEN a ELSE b

(* ------------------------------ inputs --------------------------------- *)
Workers == 1..NumWorkers
Callers == 1..Min(NumCallers, NumWorkers)
UserInputs == {"hi"}
Replies == {"ok"}
ErrorDetails == {"timeout"}
StorageErrors == {"database is locked"}
TokenPairs ==
    {t \in (0..MaxTokens) \X (0..MaxTokens) : t[1] + t[2] <= MaxTokens}
    \cup {<<1000, 1000>>}
ChatTokenCounts == {1000}
Models == {"gpt-4", "gpt-3.5-turbo"}
ApiMessages == {[role |-> "user", content |-> "hi"],
                [role |-> "assistant", content |-> "ok"]}

NoRow == [table |-> "none"]
NoReturn == [op |-> "none"]
NoResponse == [status |-> 0]
NoApiResponse == [ok |-> FALSE, detail |-> ""]
NoAudit == [llm_ok |-> 0, usage_failed |-> 0, returned |-> 0,
            overlapped |-> FALSE, storage_failed |-> FALSE]

(* ------------------------------ state ---------------------------------- *)
VARIABLES
    messages,              \* table messages: rows in commit order
    usage,                 \* table usage: rows in commit order
    sqlite_sequence,       \* AUTOINCREMENT counters, one per table
    dbLock,                \* worker holding the SQLite write lock, 0 if none
    pending,               \* per worker: the row inserted but not committed
    pc,                    \* per worker: position in chat() or in a call
    user_input,            \* per worker: chat()'s user_input
    conversation_history,  \* per worker: chat()'s conversation_history
    openai_response,       \* per worker: outcome of ChatCompletion.create
    assistant_reply,       \* per worker: chat()'s assistant_reply
    response,              \* per worker: HTTP response of the last request
    printed,               \* per worker: what the turn printed to stdout
    steps,                 \* per worker: the steps the current turn has done
    userRowId,             \* per worker: id of the turn's own user row
    ret,                   \* per worker: the last direct call and its result
    last_read,             \* the last read-only call and its result
    audit,                 \* what has happened since the database was made
    started                \* number of requests / direct calls accepted

dbVars == <<messages, usage, sqlite_sequence, dbLock, pending>>
turnVars == <<user_input, conversation_history, openai_response,
              assistant_reply, response, printed, steps, userRowId>>
vars == <<messages, usage, sqlite_sequence, dbLock, pending, pc, user_input,
          conversation_history, openai_response, assistant_reply, response,
          printed, steps, userRowId, ret, last_read, audit, started>>

(* init_db(): both tables are created empty; no request is in progress. *)
Init ==
    /\ messages = <<>>
    /\ usage = <<>>
    /\ sqlite_sequence = [messages |-> 0, usage |-> 0]
    /\ dbLock = 0
    /\ pending = [w \in Workers |-> NoRow]
    /\ pc = [w \in Workers |-> "idle"]
    /\ user_input = [w \in Workers |-> ""]
    /\ conversation_history = [w \in Workers |-> <<>>]
    /\ openai_response = [w \in Workers |-> NoApiResponse]
    /\ assistant_reply = [w \in Workers |-> ""]
    /\ response = [w \in Workers |-> NoResponse]
    /\ printed = [w \in Workers |-> <<>>]
    /\ steps = [w \in Workers |-> <<>>]
    /\ userRowId = [w \in Workers |-> 0]
    /\ ret = [w \in Workers |-> NoReturn]
    /\ last_read = NoReturn
    /\ audit = NoAudit
    /\ started = 0

(* ------------------------- SQLite primitives --------------------------- *)
(* A writer needs the database write lock, which one connection holds from *)
(* its INSERT to its commit.                                               *)
CanBeginWriteUnlocked(w) == TRUE

CanBeginWrite(w) == dbLock = 0

MaxId(rows) ==
    IF rows = <<>> THEN 0
    ELSE LET ids == {rows[i].id : i \in 1..Len(rows)}
         IN CHOOSE m \in ids : \A k \in ids : k <= m

(* INTEGER PRIMARY KEY AUTOINCREMENT: one more than the largest id ever    *)
(* used in the table.                                                      *)
NextRowId(table, rows) ==
    (IF sqlite_sequence[table] > MaxId(rows) THEN sqlite_sequence[table]
     ELSE MaxId(rows)) + 1

(* ORDER BY id DESC: id is the primary key, so no two rows have the same   *)
(* id, and the row at place k is the one with k - 1 rows of greater id.    *)
OrderByIdDesc(rows) ==
    [k \in 1..Len(rows) |->
        rows[CHOOSE i \in 1..Len(rows) :
                 Cardinality({j \in 1..Len(rows) : rows[j].id > rows[i].id})
                     = k - 1]]

(* LIMIT ?  (a negative limit means no limit in SQLite) *)
LimitOffByOne(rows, n) == SubSeq(rows, 1, Min(n - 1, Len(rows)))

Limit(rows, n) ==
    IF n < 0 THEN rows ELSE SubSeq(rows, 1, Min(n, Len(rows)))

(* rows.reverse() *)
ReverseForgotten(s) == s

Reverse(s) == [i \in 1..Len(s) |-> s[Len(s) + 1 - i]]

(* SELECT role, content ... ORDER BY id DESC LIMIT ?, reversed and turned  *)
(* into a list of dicts                                                    *)
SelectRecent(table, limit) ==
    LET rows == Reverse(Limit(OrderByIdDesc(table), limit))
    IN [i \in 1..Len(rows) |->
            [role |-> rows[i].role, content |-> rows[i].content]]

(* get_conversation_messages(limit): what the call returns in this state *)
get_conversation_messages(limit) == SelectRecent(messages, limit)

(* c.execute('INSERT INTO messages ...'): takes the write lock and stages  *)
(* the row under the next id.                                              *)
ExecuteInsertMessage(w, role, content) ==
    /\ CanBeginWrite(w)
    /\ dbLock' = w
    /\ pending' = [pending EXCEPT ![w] =
                      [table |-> "messages",
                       id |-> NextRowId("messages", messages),
                       role |-> role, content |-> content]]
    /\ UNCHANGED <<messages, usage, sqlite_sequence>>

(* conn.commit() of add_message_to_db: the row becomes visible. *)
CommitMessagePrepending(w) ==
    /\ pending[w].table = "messages"
    /\ messages' = <<[id |-> pending[w].id,
                      role |-> pending[w].role,
                      content |-> pending[w].content]>> \o messages
    /\ sqlite_sequence' = [sqlite_sequence EXCEPT !.messages = pending[w].id]
    /\ dbLock' = IF dbLock = w THEN 0 ELSE dbLock
    /\ pending' = [pending EXCEPT ![w] = NoRow]
    /\ UNCHANGED usage

CommitMessage(w) ==
    /\ pending[w].table = "messages"
    /\ messages' = Append(messages, [id |-> pending[w].id,
                                     role |-> pending[w].role,
                                     content |-> pending[w].content])
    /\ sqlite_sequence' = [sqlite_sequence EXCEPT !.messages = pending[w].id]
    /\ dbLock' = IF dbLock = w THEN 0 ELSE dbLock
    /\ pending' = [pending EXCEPT ![w] = NoRow]
    /\ UNCHANGED usage

(* An exception in execute or commit: the connection is dropped, its       *)
(* transaction rolled back and its lock released.                          *)
RollbackKeepsRow(w) ==
    /\ dbLock' = IF dbLock = w THEN 0 ELSE dbLock
    /\ pending' = [pending EXCEPT ![w] = NoRow]
    /\ messages' = IF pending[w].table = "messages"
                   THEN Append(messages, [id |-> pending[w].id,
                                          role |-> pending[w].role,
                                          content |-> pending[w].content])
                   ELSE messages
    /\ UNCHANGED <<usage, sqlite_sequence>>

Rollback(w) ==
    /\ dbLock' = IF dbLock = w THEN 0 ELSE dbLock
    /\ pending' = [pending EXCEPT ![w] = NoRow]
    /\ UNCHANGED <<messages, usage, sqlite_sequence>>

(* cost of record_usage, in micro-dollars *)
CostSwapped(prompt_tokens, completion_tokens) ==
    (prompt_tokens * GPT4_COMPLETION_COST_PER_1K) \div 1000
    + (completion_tokens * GPT4_PROMPT_COST_PER_1K) \div 1000

Cost(prompt_tokens, completion_tokens) ==
    (prompt_tokens * GPT4_PROMPT_COST_PER_1K) \div 1000
    + (completion_tokens * GPT4_COMPLETION_COST_PER_1K) \div 1000

(* c.execute('INSERT INTO usage ...') of record_usage: the model name is   *)
(* stored, the rates are the GPT-4 rates whatever the model.               *)
ExecuteInsertUsageTotalIsPrompt(w, model, prompt_tokens, completion_tokens) ==
    /\ CanBeginWrite(w)
    /\ dbLock' = w
    /\ pending' = [pending EXCEPT ![w] =
                      [table |-> "usage",
                       id |-> NextRowId("usage", usage),
                       model |-> model,
                       prompt_tokens |-> prompt_tokens,
                       completion_tokens |-> completion_tokens,
                       total_tokens |-> prompt_tokens,
                       cost |-> Cost(prompt_tokens, completion_tokens)]]
    /\ UNCHANGED <<messages, usage, sqlite_sequence>>

ExecuteInsertUsage(w, model, prompt_tokens, completion_tokens) ==
    /\ CanBeginWrite(w)
    /\ dbLock' = w
    /\ pending' = [pending EXCEPT ![w] =
                      [table |-> "usage",
                       id |-> NextRowId("usage", usage),
                       model |-> model,
                       prompt_tokens |-> prompt_tokens,
                       completion_tokens |-> completion_tokens,
                       total_tokens |-> prompt_tokens + completion_tokens,
                       cost |-> Cost(prompt_tokens, completion_tokens)]]
    /\ UNCHANGED <<messages, usage, sqlite_sequence>>

(* conn.commit() of record_usage *)
CommitUsageTwice(w) ==
    LET row == [id |-> pending[w].id,
                model |-> pending[w].model,
                prompt_tokens |-> pending[w].prompt_tokens,
                completion_tokens |-> pending[w].completion_tokens,
                total_tokens |-> pending[w].total_tokens,
                cost |-> pending[w].cost]
    IN /\ pending[w].table = "usage"
       /\ usage' = usage \o <<row, [row EXCEPT !.id = @ + 1]>>
       /\ sqlite_sequence' =
              [sqlite_sequence EXCEPT !.usage = pending[w].id + 1]
       /\ dbLock' = IF dbLock = w THEN 0 ELSE dbLock
       /\ pending' = [pending EXCEPT ![w] = NoRow]
       /\ UNCHANGED messages

CommitUsage(w) ==
    /\ pending[w].table = "usage"
    /\ usage' = Append(usage, [id |-> pending[w].id,
                               model |-> pending[w].model,
                               prompt_tokens |-> pending[w].prompt_tokens,
                               completion_tokens |->
                                   pending[w].completion_tokens,
                               total_tokens |-> pending[w].total_tokens,
                               cost |-> pending[w].cost])
    /\ sqlite_sequence' = [sqlite_sequence EXCEPT !.usage = pending[w].id]
    /\ dbLock' = IF dbLock = w THEN 0 ELSE dbLock
    /\ pending' = [pending EXCEPT ![w] = NoRow]
    /\ UNCHANGED messages

RECURSIVE SumField(_, _)
SumField(rows, f) ==
    IF rows = <<>> THEN 0 ELSE rows[1][f] + SumField(Tail(rows), f)

(* round(x, 5) on micro-dollars: nearest multiple of 10, ties to even *)
Round5(x) ==
    LET q == x \div 10
        r == x % 10
    IN IF r < 5 THEN q * 10
       ELSE IF r > 5 THEN (q + 1) * 10
       ELSE IF q % 2 = 0 THEN q * 10 ELSE (q + 1) * 10

(* SQL NULL, which no token count and no cost equals *)
SqlNull == -1

(* SELECT SUM(column) FROM usage: NULL over no rows *)
SqlSum(rows, f) == IF rows = <<>> THEN SqlNull ELSE SumField(rows, f)

(* row[i] if row[i] else 0 *)
OrZeroForgotten(v) == v

OrZero(v) == IF v = SqlNull \/ v = 0 THEN 0 ELSE v

(* get_usage_summary() *)
SummaryLastOnly ==
    IF usage = <<>> THEN [total_prompt_tokens |-> 0,
                          total_completion_tokens |-> 0, total_cost |-> 0]
    ELSE [total_prompt_tokens |-> usage[Len(usage)].prompt_tokens,
          total_completion_tokens |-> usage[Len(usage)].completion_tokens,
          total_cost |-> Round5(usage[Len(usage)].cost)]

get_usage_summary ==
    LET total_prompt == OrZero(SqlSum(usage, "prompt_tokens"))
        total_completion == OrZero(SqlSum(usage, "completion_tokens"))
        total_cost == OrZero(SqlSum(usage, "cost"))
    IN [total_prompt_tokens |-> total_prompt,
        total_completion_tokens |-> total_completion,
        total_cost |-> Round5(total_cost)]

(* f"Error: {str(e)}" *)
ErrorReplyBare(e) == e

ErrorReply(e) == "Error: " \o e

(* ------------------------------ /chat ---------------------------------- *)
Did(w, step) == steps' = [steps EXCEPT ![w] = Append(@, step)]

(* data = request.get_json(); user_input = data.get('user_input', '') *)
ChatBegin(w, input) ==
    /\ pc[w] = "idle"
    /\ started < MaxTurns
    /\ started' = started + 1
    /\ pc' = [pc EXCEPT ![w] = "add_user"]
    /\ user_input' = [user_input EXCEPT ![w] = input]
    /\ conversation_history' = [conversation_history EXCEPT ![w] = <<>>]
    /\ openai_response' = [openai_response EXCEPT ![w] = NoApiResponse]
    /\ assistant_reply' = [assistant_reply EXCEPT ![w] = ""]
    /\ response' = [response EXCEPT ![w] = NoResponse]
    /\ printed' = [printed EXCEPT ![w] = <<>>]
    /\ steps' = [steps EXCEPT ![w] = <<>>]
    /\ userRowId' = [userRowId EXCEPT ![w] = 0]
    /\ UNCHANGED last_read
    /\ audit' = [audit EXCEPT
                     !.overlapped = @ \/ \E v \in Workers : pc[v] # "idle"]
    /\ UNCHANGED <<dbVars, ret>>

(* an uncaught exception leaves chat(): the request ends with a 500 *)
Raise(w, e) ==
    /\ pc' = [pc EXCEPT ![w] = "idle"]
    /\ response' = [response EXCEPT ![w] =
                       [status |-> HTTP_ERROR, body |-> "", error |-> e]]
    /\ Did(w, "raise")

(* add_message_to_db('user', user_input): INSERT *)
ChatSkipUserAppend(w) ==
    /\ pc[w] = "add_user"
    /\ pc' = [pc EXCEPT ![w] = "window"]
    /\ UNCHANGED <<last_read, audit>>
    /\ UNCHANGED <<dbVars, turnVars, ret, started>>

ChatAddUserExecute(w) ==
    /\ pc[w] = "add_user"
    /\ ExecuteInsertMessage(w, "user", user_input[w])
    /\ userRowId' = [userRowId EXCEPT ![w] = pending'[w].id]
    /\ pc' = [pc EXCEPT ![w] = "add_user_commit"]
    /\ UNCHANGED <<last_read, audit>>
    /\ UNCHANGED <<user_input, conversation_history, openai_response,
                   assistant_reply, response, printed, steps, ret, started>>

(* add_message_to_db('user', user_input): commit, close *)
ChatAddUserCommit(w) ==
    /\ pc[w] = "add_user_commit"
    /\ CommitMessage(w)
    /\ Did(w, "append_user")
    /\ pc' = [pc EXCEPT ![w] = "window"]
    /\ UNCHANGED <<last_read, audit>>
    /\ UNCHANGED <<user_input, conversation_history, openai_response,
                   assistant_reply, response, printed, userRowId, ret,
                   started>>

(* chat() has no handler around the first add_message_to_db *)
UserAppendFailureSwallowed(w, e) ==
    /\ pc' = [pc EXCEPT ![w] = "window"]
    /\ response' = response
    /\ Did(w, "append_user_failed")

UserAppendFailed(w, e) == Raise(w, e)

ChatAddUserRaise(w) ==
    \E e \in StorageErrors :
        /\ pc[w] \in {"add_user", "add_user_commit"}
        /\ Rollback(w)
        /\ UserAppendFailed(w, e)
        /\ userRowId' = [userRowId EXCEPT ![w] = 0]
        /\ UNCHANGED last_read
        /\ audit' = [audit EXCEPT !.storage_failed = TRUE]
        /\ UNCHANGED <<user_input, conversation_history, openai_response,
                       assistant_reply, printed, ret, started>>

(* conversation_history = get_conversation_messages(limit=10) *)
ChatWindow(w) ==
    /\ pc[w] = "window"
    /\ conversation_history' = [conversation_history EXCEPT ![w] =
                                   get_conversation_messages(ChatWindowLimit)]
    /\ Did(w, "window")
    /\ pc' = [pc EXCEPT ![w] = "openai"]
    /\ UNCHANGED <<last_read, audit>>
    /\ UNCHANGED <<dbVars, user_input, openai_response, assistant_reply,
                   response, printed, userRowId, ret, started>>

(* the SELECT of get_conversation_messages raises *)
ChatWindowRaise(w) ==
    \E e \in StorageErrors :
        /\ pc[w] = "window"
        /\ Raise(w, e)
        /\ UNCHANGED last_read
        /\ audit' = [audit EXCEPT !.storage_failed = TRUE]
        /\ UNCHANGED <<dbVars, user_input, conversation_history,
                       openai_response, assistant_reply, printed, userRowId,
                       ret, started>>

(* openai.ChatCompletion.create returns a response *)
ChatOpenAIOk(w) ==
    \E r \in Replies, p \in ChatTokenCounts, c \in ChatTokenCounts :
        /\ pc[w] = "openai"
        /\ openai_response' = [openai_response EXCEPT ![w] =
               [ok |-> TRUE, content |-> r,
                prompt_tokens |-> p, completion_tokens |-> c]]
        /\ Did(w, "llm_ok")
        /\ pc' = [pc EXCEPT ![w] = "record_usage"]
        /\ UNCHANGED last_read
        /\ audit' = [audit EXCEPT !.llm_ok = @ + 1]
        /\ UNCHANGED <<dbVars, user_input, conversation_history,
                       assistant_reply, response, printed, userRowId, ret,
                       started>>

(* except Exception as e: print, return f"Error: {str(e)}" *)
CaughtInCompletionHangs(w, e) ==
    /\ printed' = [printed EXCEPT ![w] = Append(@, e)]
    /\ assistant_reply' = [assistant_reply EXCEPT ![w] = ErrorReply(e)]
    /\ pc' = [pc EXCEPT ![w] = "blocked"]

CaughtInCompletion(w, e) ==
    /\ printed' = [printed EXCEPT ![w] = Append(@, e)]
    /\ assistant_reply' = [assistant_reply EXCEPT ![w] = ErrorReply(e)]
    /\ pc' = [pc EXCEPT ![w] = "add_assistant"]

(* openai.ChatCompletion.create raises (timeout, auth, rate limit ...) *)
ChatOpenAIFail(w) ==
    \E d \in ErrorDetails :
        /\ pc[w] = "openai"
        /\ openai_response' = [openai_response EXCEPT ![w] =
                                  [ok |-> FALSE, detail |-> d]]
        /\ CaughtInCompletion(w, d)
        /\ Did(w, "llm_fail")
        /\ UNCHANGED <<last_read, audit>>
        /\ UNCHANGED <<dbVars, user_input, conversation_history, response,
                       userRowId, ret, started>>

(* record_usage(model="gpt-4", ...): INSERT *)
ChatRecordUsageExecute(w) ==
    /\ pc[w] = "record_usage"
    /\ ExecuteInsertUsage(w, "gpt-4", openai_response[w].prompt_tokens,
                          openai_response[w].completion_tokens)
    /\ pc' = [pc EXCEPT ![w] = "record_usage_commit"]
    /\ UNCHANGED <<last_read, audit>>
    /\ UNCHANGED <<turnVars, ret, started>>

(* record_usage: commit, close; then return assistant_message *)
ChatRecordUsageCommit(w) ==
    /\ pc[w] = "record_usage_commit"
    /\ CommitUsage(w)
    /\ assistant_reply' = [assistant_reply EXCEPT ![w] =
                              openai_response[w].content]
    /\ Did(w, "usage")
    /\ pc' = [pc EXCEPT ![w] = "add_assistant"]
    /\ UNCHANGED <<last_read, audit>>
    /\ UNCHANGED <<user_input, conversation_history, openai_response,
                   response, printed, userRowId, ret, started>>

(* record_usage raises inside the try block of generate_chat_completion *)
ChatRecordUsageFail(w) ==
    \E e \in StorageErrors :
        /\ pc[w] \in {"record_usage", "record_usage_commit"}
        /\ Rollback(w)
        /\ CaughtInCompletion(w, e)
        /\ Did(w, "usage_failed")
        /\ UNCHANGED last_read
        /\ audit' = [audit EXCEPT !.usage_failed = @ + 1]
        /\ UNCHANGED <<user_input, conversation_history, openai_response,
                       response, userRowId, ret, started>>

(* add_message_to_db('assistant', assistant_reply): INSERT *)
ChatAddAssistantExecuteAsUser(w) ==
    /\ pc[w] = "add_assistant"
    /\ ExecuteInsertMessage(w, "user", assistant_reply[w])
    /\ pc' = [pc EXCEPT ![w] = "add_assistant_commit"]
    /\ UNCHANGED <<last_read, audit>>
    /\ UNCHANGED <<turnVars, ret, started>>

ChatAddAssistantExecute(w) ==
    /\ pc[w] = "add_assistant"
    /\ ExecuteInsertMessage(w, "assistant", assistant_reply[w])
    /\ pc' = [pc EXCEPT ![w] = "add_assistant_commit"]
    /\ UNCHANGED <<last_read, audit>>
    /\ UNCHANGED <<turnVars, ret, started>>

(* return jsonify({'response': assistant_reply}) *)
ReturnReply(w) ==
    /\ pc' = [pc EXCEPT ![w] = "idle"]
    /\ response' = [response EXCEPT ![w] =
                       [status |-> HTTP_OK, body |-> assistant_reply[w],
                        error |-> ""]]
    /\ steps' = [steps EXCEPT ![w] = @ \o <<"append_assistant", "return">>]

(* add_message_to_db('assistant', ...): commit, close; then the return *)
ChatAddAssistantCommit(w) ==
    /\ pc[w] = "add_assistant_commit"
    /\ CommitMessage(w)
    /\ ReturnReply(w)
    /\ UNCHANGED last_read
    /\ audit' = [audit EXCEPT !.returned = @ + 1]
    /\ UNCHANGED <<user_input, conversation_history, openai_response,
                   assistant_reply, printed, userRowId, ret, started>>

(* chat() has no handler around the second add_message_to_db *)
AssistantAppendFailureIgnored(w, e) == ReturnReply(w)

AssistantAppendFailed(w, e) == Raise(w, e)

ChatAddAssistantRaise(w) ==
    \E e \in StorageErrors :
        /\ pc[w] \in {"add_assistant", "add_assistant_commit"}
        /\ Rollback(w)
        /\ AssistantAppendFailed(w, e)
        /\ UNCHANGED last_read
        /\ audit' = [audit EXCEPT !.storage_failed = TRUE]
        /\ UNCHANGED <<user_input, conversation_history, openai_response,
                       assistant_reply, printed, userRowId, ret, started>>

(* GET /usage: jsonify(get_usage_summary()) *)
UsageRequestResetting(w) ==
    /\ pc[w] = "idle"
    /\ UNCHANGED audit
    /\ last_read' = [op |-> "summary", at |-> Len(usage),
                     value |-> get_usage_summary]
    /\ usage' = <<>>
    /\ UNCHANGED <<messages, sqlite_sequence, dbLock, pending>>
    /\ UNCHANGED <<pc, turnVars, ret, started>>

UsageRequest(w) ==
    /\ pc[w] = "idle"
    /\ UNCHANGED audit
    /\ last_read' = [op |-> "summary", at |-> Len(usage),
                     value |-> get_usage_summary]
    /\ UNCHANGED <<dbVars, pc, turnVars, ret, started>>

Next ==
    \E w \in Workers :
        \/ \E input \in UserInputs : ChatBegin(w, input)
        \/ ChatAddUserExecute(w)
        \/ ChatAddUserCommit(w)
        \/ ChatAddUserRaise(w)
        \/ ChatWindow(w)
        \/ ChatWindowRaise(w)
        \/ ChatOpenAIOk(w)
        \/ ChatOpenAIFail(w)
        \/ ChatRecordUsageExecute(w)
        \/ ChatRecordUsageCommit(w)
        \/ ChatRecordUsageFail(w)
        \/ ChatAddAssistantExecute(w)
        \/ ChatAddAssistantCommit(w)
        \/ ChatAddAssistantRaise(w)
        \/ UsageRequest(w)

Spec == Init /\ [][Next]_vars

(* The steps of the request that worker w is serving. *)
TurnStep(w) ==
    \/ ChatAddUserExecute(w)
    \/ ChatAddUserCommit(w)
    \/ ChatAddUserRaise(w)
    \/ ChatWindow(w)
    \/ ChatWindowRaise(w)
    \/ ChatOpenAIOk(w)
    \/ ChatOpenAIFail(w)
    \/ ChatRecordUsageExecute(w)
    \/ ChatRecordUsageCommit(w)
    \/ ChatRecordUsageFail(w)
    \/ ChatAddAssistantExecute(w)
    \/ ChatAddAssistantCommit(w)
    \/ ChatAddAssistantRaise(w)

(* The same program under the scheduling it runs with: the thread serving  *)
(* a request is not starved by the operating system; sqlite3 waits at most *)
(* its busy timeout for the write lock and then raises "database is        *)
(* locked"; the call of the OpenAI client returns or raises (its request   *)
(* timeout). A request in progress therefore always has a next step, and   *)
(* takes one. No request is ever obliged to arrive.                        *)
(* GET /usage only reads and takes no lock: it is left out here, and the   *)
(* requests are served by two threads, which is what it takes for one      *)
(* turn to wait for the write lock that another holds.                     *)
LiveWorkers == 1..Min(NumWorkers, 2)

NextLive ==
    \E w \in LiveWorkers :
        \/ \E input \in UserInputs : ChatBegin(w, input)
        \/ TurnStep(w)

SpecLive ==
    Init /\ [][NextLive]_vars /\ \A w \in LiveWorkers : WF_vars(TurnStep(w))

(* ------------------- direct calls of the message store ----------------- *)
(* add_message_to_db(role, content) called on its own: INSERT *)
StoreAddExecute(w) ==
    \E m \in ApiMessages :
        /\ pc[w] = "idle"
        /\ started < MaxCalls
        /\ started' = started + 1
        /\ ExecuteInsertMessage(w, m.role, m.content)
        /\ ret' = [ret EXCEPT ![w] = [op |-> "add", ok |-> FALSE,
                                      role |-> m.role, content |-> m.content,
                                      pos |-> 0]]
        /\ pc' = [pc EXCEPT ![w] = "store_add_commit"]
        /\ UNCHANGED <<last_read, audit>>
        /\ UNCHANGED <<turnVars>>

(* add_message_to_db: commit, close, return *)
StoreAddCommit(w) ==
    /\ pc[w] = "store_add_commit"
    /\ CommitMessage(w)
    /\ ret' = [ret EXCEPT ![w] = [@ EXCEPT !.ok = TRUE,
                                            !.pos = Len(messages) + 1]]
    /\ pc' = [pc EXCEPT ![w] = "idle"]
    /\ UNCHANGED <<last_read, audit>>
    /\ UNCHANGED <<turnVars, started>>

(* add_message_to_db raises in execute *)
StoreAddExecuteRaise(w) ==
    \E m \in ApiMessages, e \in StorageErrors :
        /\ pc[w] = "idle"
        /\ started < MaxCalls
        /\ started' = started + 1
        /\ ret' = [ret EXCEPT ![w] = [op |-> "add", ok |-> FALSE,
                                      role |-> m.role, content |-> m.content,
                                      pos |-> 0]]
        /\ UNCHANGED <<last_read, audit>>
        /\ UNCHANGED <<dbVars, pc, turnVars>>

(* add_message_to_db raises in commit *)
StoreAddCommitRaise(w) ==
    /\ pc[w] = "store_add_commit"
    /\ Rollback(w)
    /\ pc' = [pc EXCEPT ![w] = "idle"]
    /\ UNCHANGED <<last_read, audit>>
    /\ UNCHANGED <<turnVars, ret, started>>

(* get_conversation_messages(limit) called on its own *)
StoreWindow(w) ==
    \E n \in 1..MaxLimit :
        /\ pc[w] = "idle"
        /\ UNCHANGED audit
        /\ last_read' = [op |-> "window", limit |-> n, at |-> Len(messages),
                         rows |-> get_conversation_messages(n)]
        /\ UNCHANGED <<dbVars, pc, turnVars, ret, started>>

NextStore ==
    \E w \in Callers :
        \/ StoreAddExecute(w)
        \/ StoreAddCommit(w)
        \/ StoreAddExecuteRaise(w)
        \/ StoreAddCommitRaise(w)
        \/ StoreWindow(w)

SpecStore == Init /\ [][NextStore]_vars

(* ------------------- direct calls of the usage ledger ------------------ *)
(* record_usage(model, prompt_tokens, completion_tokens): INSERT *)
LedgerRecordExecute(w) ==
    \E model \in Models, t \in TokenPairs :
        /\ pc[w] = "idle"
        /\ started < MaxRecords
        /\ started' = started + 1
        /\ ExecuteInsertUsage(w, model, t[1], t[2])
        /\ ret' = [ret EXCEPT ![w] = [op |-> "record", ok |-> FALSE,
                                      model |-> model,
                                      prompt_tokens |-> t[1],
                                      completion_tokens |-> t[2],
                                      pos |-> 0]]
        /\ pc' = [pc EXCEPT ![w] = "ledger_record_commit"]
        /\ UNCHANGED <<last_read, audit>>
        /\ UNCHANGED <<turnVars>>

(* record_usage: commit, close, return *)
LedgerRecordCommit(w) ==
    /\ pc[w] = "ledger_record_commit"
    /\ CommitUsage(w)
    /\ ret' = [ret EXCEPT ![w] = [@ EXCEPT !.ok = TRUE,
                                            !.pos = Len(usage) + 1]]
    /\ pc' = [pc EXCEPT ![w] = "idle"]
    /\ UNCHANGED <<last_read, audit>>
    /\ UNCHANGED <<turnVars, started>>

(* record_usage raises in commit *)
LedgerRecordRaise(w) ==
    /\ pc[w] = "ledger_record_commit"
    /\ Rollback(w)
    /\ pc' = [pc EXCEPT ![w] = "idle"]
    /\ UNCHANGED <<last_read, audit>>
    /\ UNCHANGED <<turnVars, ret, started>>

(* get_usage_summary() called on its own *)
LedgerSummary(w) ==
    /\ pc[w] = "idle"
    /\ UNCHANGED audit
    /\ last_read' = [op |-> "summary", at |-> Len(usage),
                     value |-> get_usage_summary]
    /\ UNCHANGED <<dbVars, pc, turnVars, ret, started>>

NextLedger ==
    \E w \in Callers :
        \/ LedgerRecordExecute(w)
        \/ LedgerRecordCommit(w)
        \/ LedgerRecordRaise(w)
        \/ LedgerSummary(w)

SpecLedger == Init /\ [][NextLedger]_vars

(* ============================ properties =============================== *)
Has(w, step) == \E i \in 1..Len(steps[w]) : steps[w][i] = step

InTurn(w) == pc[w] # "idle" \/ steps[w] # <<>>

RoleContent(row) == [role |-> row.role, content |-> row.content]

(* C1: a window read with limit n over a log of L messages returns exactly *)
(* min(n, L) messages, and they are the last min(n, L) messages of the log *)
(* in append (oldest-first) order.                                         *)
WindowReturnsTail ==
    last_read.op = "window" =>
        LET L == last_read.at
            k == Min(last_read.limit, L)
        IN /\ Len(last_read.rows) = k
           /\ \A i \in 1..k :
                  last_read.rows[i] = RoleContent(messages[L - k + i])

WindowTruncated ==
    /\ last_read.op = "window"
    /\ last_read.limit = 2
    /\ last_read.at = 3
    /\ last_read.rows[1] # last_read.rows[2]
    /\ messages[1].role # messages[2].role

(* C2: round trip: reading a window as long as the log returns every       *)
(* appended message, with the role and content it was appended with, in    *)
(* append order.                                                           *)
WindowRoundTrip ==
    LET all == get_conversation_messages(Len(messages))
    IN /\ Len(all) = Len(messages)
       /\ \A i \in 1..Len(messages) : all[i] = RoleContent(messages[i])
       /\ \A w \in Workers :
              (ret[w].op = "add" /\ ret[w].ok) =>
                  all[ret[w].pos] = [role |-> ret[w].role,
                                     content |-> ret[w].content]

RoundTripOfThree ==
    /\ Len(messages) = 3
    /\ messages[1].role # messages[3].role
    /\ \E w \in Workers : ret[w].op = "add" /\ ret[w].ok /\ ret[w].pos = 3

(* C3: with concurrent turns the ids of the stored messages are distinct,  *)
(* strictly increasing in commit order and contiguous: the i-th committed  *)
(* message has id i.                                                       *)
IdsSerial ==
    \A i \in 1..Len(messages) : messages[i].id = i

ConcurrentAppends ==
    /\ Len(messages) >= 3
    /\ messages[1].role = "user"
    /\ messages[2].role = "user"
    /\ \E w \in Workers : pending[w].table = "messages"

(* C4: the window a turn reads ends with the turn's own user message and   *)
(* holds nothing appended after it: it is the window of the log as it was  *)
(* right after the turn's own append.                                      *)
WindowAtomicWithAppend ==
    \A w \in Workers :
        Has(w, "window") =>
            /\ Len(conversation_history[w])
                   = Min(ChatWindowLimit, userRowId[w])
            /\ conversation_history[w][Len(conversation_history[w])]
                   = [role |-> "user", content |-> user_input[w]]

LLMFailureIsReply ==
    \A w \in Workers :
        Has(w, "llm_fail") =>
            /\ assistant_reply[w] = "Error: " \o openai_response[w].detail
            /\ pc[w] = "idle" =>
                   \/ /\ response[w].status = HTTP_OK
                      /\ response[w].body
                             = "Error: " \o openai_response[w].detail
                   \/ /\ response[w].status = HTTP_ERROR
                      /\ response[w].error \in StorageErrors

LLMFailureIsStoredStep ==
    \A w \in Workers :
        (/\ Has(w, "llm_fail")
         /\ pc[w] = "add_assistant_commit"
         /\ pc'[w] = "idle"
         /\ response'[w].status = HTTP_OK) =>
            SelectRecent(messages', 1)
                = <<[role |-> "assistant",
                     content |-> "Error: " \o openai_response[w].detail]>>

(* C5: an LLM failure with detail d is not raised: the turn's reply is     *)
(* "Error: d", a turn that returns returns that text with status 200, a    *)
(* turn that raises raises a storage error, and right after the turn's     *)
(* assistant append a window of 1 is the assistant message "Error: d".     *)
LLMFailureIsStoredReply ==
    []LLMFailureIsReply /\ [][LLMFailureIsStoredStep]_vars

ErrorReplyReturned ==
    \E w \in Workers :
        /\ Has(w, "llm_fail")
        /\ pc[w] = "idle"
        /\ response[w] = [status |-> HTTP_OK, body |-> "Error: timeout",
                          error |-> ""]
        /\ get_conversation_messages(1)
               = <<[role |-> "assistant", content |-> "Error: timeout"]>>

(* C6: when the LLM call succeeded and recording the usage failed, a turn  *)
(* that returns returns the LLM's reply text, and that text is what it     *)
(* stores as the assistant message.                                        *)
UsageFailureKeepsReply ==
    \A w \in Workers :
        Has(w, "usage_failed") =>
            /\ pc[w] \in {"add_assistant", "add_assistant_commit"} =>
                   assistant_reply[w] = openai_response[w].content
            /\ (pc[w] = "idle" /\ response[w].status = HTTP_OK) =>
                   response[w].body = openai_response[w].content

UserAppendFailureEndsTurn ==
    \A w \in Workers :
        (/\ InTurn(w)
         /\ pc[w] \notin {"add_user", "add_user_commit"}
         /\ ~Has(w, "append_user")) =>
            /\ pc[w] = "idle"
            /\ steps[w] = <<"raise">>
            /\ response[w].status = HTTP_ERROR
            /\ response[w].error \in StorageErrors
            /\ response[w].body = ""
            /\ conversation_history[w] = <<>>
            /\ openai_response[w] = NoApiResponse
            /\ assistant_reply[w] = ""
            /\ pending[w] = NoRow

UserAppendFailureStep ==
    \A w \in Workers :
        (pc[w] \in {"add_user", "add_user_commit"} /\ pc'[w] = "idle") =>
            /\ messages' = messages
            /\ usage' = usage

(* C7: when the append of the user message fails the turn ends at once     *)
(* with the storage error: it reads no window, calls no LLM, records no    *)
(* usage and appends no assistant message.                                 *)
UserAppendFailurePropagates ==
    []UserAppendFailureEndsTurn /\ [][UserAppendFailureStep]_vars

UserAppendHasFailed ==
    \E w \in Workers :
        /\ steps[w] = <<"raise">>
        /\ pc[w] = "idle"
        /\ response[w].status = HTTP_ERROR
        /\ \E v \in Workers : v # w /\ response[v].status = HTTP_OK

RaisedAtAssistantAppend(w) ==
    /\ pc[w] = "idle"
    /\ Has(w, "raise")
    /\ Has(w, "llm_ok") \/ Has(w, "llm_fail")

AssistantAppendFailureKeeps ==
    \A w \in Workers :
        RaisedAtAssistantAppend(w) =>
            /\ response[w].status = HTTP_ERROR
            /\ response[w].body = ""
            /\ response[w].error \in StorageErrors
            /\ userRowId[w] \in 1..Len(messages)
            /\ RoleContent(messages[userRowId[w]])
                   = [role |-> "user", content |-> user_input[w]]
            /\ Has(w, "usage") =>
                   \E i \in 1..Len(usage) :
                       /\ usage[i].model = "gpt-4"
                       /\ usage[i].prompt_tokens
                              = openai_response[w].prompt_tokens
                       /\ usage[i].completion_tokens
                              = openai_response[w].completion_tokens

AssistantAppendFailureStep ==
    \A w \in Workers :
        (/\ pc[w] \in {"add_assistant", "add_assistant_commit"}
         /\ pc'[w] = "idle"
         /\ Len(messages') = Len(messages)) =>
            /\ response'[w].status = HTTP_ERROR
            /\ response'[w].body = ""
            /\ messages' = messages
            /\ usage' = usage

(* C8: when the append of the assistant message fails the turn ends with   *)
(* the storage error and no reply text, and what the turn did before       *)
(* stays: its user message is in the log, and so is the usage record of    *)
(* its successful LLM call.                                                *)
AssistantAppendFailurePropagates ==
    []AssistantAppendFailureKeeps /\ [][AssistantAppendFailureStep]_vars

AssistantAppendHasFailed ==
    \E w \in Workers :
        /\ steps[w] = <<"append_user", "window", "llm_ok", "usage", "raise">>
        /\ response[w].status = HTTP_ERROR
        /\ Len(usage) >= 1
        /\ messages[Len(messages)].role = "user"

RateTableModels == {"gpt-4"}

(* C9: record_usage called with a model that has no rates fails and        *)
(* persists no usage record.                                               *)
UnknownModelRejected ==
    /\ \A w \in Workers :
           (ret[w].op = "record" /\ ret[w].model \notin RateTableModels) =>
               ~ret[w].ok
    /\ \A i \in 1..Len(usage) : usage[i].model \in RateTableModels

RECURSIVE PromptSum(_)
PromptSum(n) ==
    IF n = 0 THEN 0 ELSE usage[n].prompt_tokens + PromptSum(n - 1)

RECURSIVE CompletionSum(_)
CompletionSum(n) ==
    IF n = 0 THEN 0 ELSE usage[n].completion_tokens + CompletionSum(n - 1)

RECURSIVE CallCostSum(_)
CallCostSum(n) ==
    IF n = 0 THEN 0
    ELSE 30 * usage[n].prompt_tokens + 60 * usage[n].completion_tokens
         + CallCostSum(n - 1)

(* C10: record is additive: a summary taken over k records reports the sum *)
(* of their prompt tokens, the sum of their completion tokens, and the sum *)
(* of the costs of the single calls (0.03 $ per 1000 prompt tokens plus    *)
(* 0.06 $ per 1000 completion tokens: 30 and 60 micro-dollars per token),  *)
(* each record holding the token counts its call was given.                *)
SummaryIsAdditive ==
    /\ last_read.op = "summary" =>
           last_read.value =
               [total_prompt_tokens |-> PromptSum(last_read.at),
                total_completion_tokens |-> CompletionSum(last_read.at),
                total_cost |-> CallCostSum(last_read.at)]
    /\ \A w \in Workers :
           (ret[w].op = "record" /\ ret[w].ok) =>
               /\ usage[ret[w].pos].prompt_tokens = ret[w].prompt_tokens
               /\ usage[ret[w].pos].completion_tokens
                      = ret[w].completion_tokens
               /\ usage[ret[w].pos].model = ret[w].model

SummaryOfTwo ==
    /\ last_read.op = "summary"
    /\ last_read.at = 2
    /\ last_read.value = [total_prompt_tokens |-> 1,
                          total_completion_tokens |-> 1,
                          total_cost |-> 90]

(* C11: the cost a record stores is promptTokens/1000 * 0.03 $ plus        *)
(* completionTokens/1000 * 0.06 $ (in micro-dollars: 1000 * cost = 30000 * *)
(* p + 60000 * c) for the token counts its call was given; a gpt-4 record  *)
(* of 1000 and 1000 tokens stores 0.09 $, and a summary over that record   *)
(* alone reports a total cost of 0.09 $.                                   *)
CostFromRates ==
    /\ \A i \in 1..Len(usage) :
           /\ 1000 * usage[i].cost = 30000 * usage[i].prompt_tokens
                                     + 60000 * usage[i].completion_tokens
           /\ (usage[i].prompt_tokens = 1000
               /\ usage[i].completion_tokens = 1000) =>
                  usage[i].cost = 90000
    /\ \A w \in Workers :
           (ret[w].op = "record" /\ ret[w].ok) =>
               1000 * usage[ret[w].pos].cost
                   = 30000 * ret[w].prompt_tokens
                     + 60000 * ret[w].completion_tokens
    /\ (/\ last_read.op = "summary"
        /\ last_read.at = 1
        /\ usage[1].prompt_tokens = 1000
        /\ usage[1].completion_tokens = 1000) =>
           last_read.value.total_cost = 90000

ScenarioB ==
    /\ last_read.op = "summary"
    /\ last_read.at = 1
    /\ usage[1].model = "gpt-4"
    /\ usage[1].prompt_tokens = 1000
    /\ usage[1].completion_tokens = 1000
    /\ usage[1].cost = 90000
    /\ last_read.value.total_cost = 90000

(* C12: a summary taken over a ledger without records reports 0 prompt     *)
(* tokens, 0 completion tokens and a total cost of 0.                      *)
SummaryOfNothing ==
    (last_read.op = "summary" /\ last_read.at = 0) =>
        last_read.value = [total_prompt_tokens |-> 0,
                           total_completion_tokens |-> 0,
                           total_cost |-> 0]

SummaryTakenOnEmptyLedger ==
    /\ last_read.op = "summary"
    /\ last_read.at = 0
    /\ usage = <<>>
    /\ \E w \in Workers : ret[w].op = "record" /\ ~ret[w].ok

(* C13: every persisted usage record has total_tokens = prompt_tokens +    *)
(* completion_tokens, and its prompt tokens, completion tokens and cost    *)
(* are not negative.                                                       *)
UsageRecordsWellFormed ==
    \A i \in 1..Len(usage) :
        /\ usage[i].total_tokens
               = usage[i].prompt_tokens + usage[i].completion_tokens
        /\ usage[i].prompt_tokens >= 0
        /\ usage[i].completion_tokens >= 0
        /\ usage[i].cost >= 0

UsageRecordedByTurns ==
    /\ Len(usage) = 2
    /\ usage[2].total_tokens = 2000
    /\ usage[2].cost = 90000

LogIsAppendOnlyStep ==
    /\ Len(messages') >= Len(messages)
    /\ SubSeq(messages', 1, Len(messages)) = messages

(* C14: the message log is append-only: every step of every operation,     *)
(* with concurrent and with failing turns, leaves the log it found as a    *)
(* prefix of the log it leaves, so that every persisted message keeps its  *)
(* id, role, content and position and none is removed.                     *)
LogIsAppendOnly == [][LogIsAppendOnlyStep]_vars

LogGrewAcrossFailure ==
    /\ Len(messages) >= 2
    /\ \E w \in Workers : pc[w] = "idle" /\ response[w].status = HTTP_ERROR
    /\ \E w \in Workers : pc[w] = "add_assistant_commit"

FailedAppendStep ==
    \A w \in Workers :
        (/\ ret'[w].op = "add"
         /\ ~ret'[w].ok
         /\ pc'[w] = "idle"
         /\ pc[w] = "store_add_commit" \/ started' # started) =>
            /\ messages' = messages
            /\ sqlite_sequence' = sqlite_sequence
            /\ pending'[w] = NoRow
            /\ \A n \in 1..MaxLimit :
                   SelectRecent(messages', n) = get_conversation_messages(n)

(* C15: a failed add_message_to_db leaves the message log as it was: the   *)
(* step in which the call fails changes neither the log nor the id         *)
(* counter, leaves no row pending, and every window read gives after it    *)
(* what it gave before it.                                                 *)
FailedAppendChangesNothing == [][FailedAppendStep]_vars

AppendHasFailedBeforeRead ==
    /\ \E w \in Workers : ret[w].op = "add" /\ ~ret[w].ok /\ pc[w] = "idle"
    /\ started = Len(messages) + 1
    /\ Len(messages) >= 1
    /\ last_read.op = "window"
    /\ last_read.at = Len(messages)
    /\ Len(last_read.rows) = Len(messages)

TurnPaths ==
    {<<"append_user", "window", "llm_ok", "usage",
       "append_assistant", "return">>,
     <<"append_user", "window", "llm_ok", "usage_failed",
       "append_assistant", "return">>,
     <<"append_user", "window", "llm_fail",
       "append_assistant", "return">>}

(* The steps of a turn so far: a path up to some step (the assistant       *)
(* append and the return are one step), or a path cut by a storage error   *)
(* at the user append, at the window read or at the assistant append.      *)
AllowedSteps ==
    UNION {{SubSeq(p, 1, k) : k \in (0..(Len(p) - 2)) \cup {Len(p)}}
           \cup {SubSeq(p, 1, k) \o <<"raise">> : k \in {0, 1, Len(p) - 2}}
           : p \in TurnPaths}

StepsInOrder == \A w \in Workers : steps[w] \in AllowedSteps

TurnStepsInOrderStep ==
    \A w \in Workers :
        /\ (pc[w] = "openai" /\ pc'[w] # "openai") =>
               /\ Has(w, "append_user")
               /\ conversation_history[w] # <<>>
               /\ userRowId[w] \in 1..Len(messages)
               /\ RoleContent(messages[userRowId[w]])
                      = [role |-> "user", content |-> user_input[w]]
        /\ (pc[w] = "add_assistant_commit" /\ Len(messages') > Len(messages)
            /\ Has(w, "llm_ok") /\ ~Has(w, "usage_failed")) =>
               /\ Has(w, "usage")
               /\ \E i \in 1..Len(usage) :
                      /\ usage[i].prompt_tokens
                             = openai_response[w].prompt_tokens
                      /\ usage[i].completion_tokens
                             = openai_response[w].completion_tokens
        /\ (pc[w] # "idle" /\ pc'[w] = "idle"
            /\ response'[w].status = HTTP_OK) =>
               /\ Len(messages') = Len(messages) + 1
               /\ messages'[Len(messages')].role = "assistant"

(* C16: within a turn the steps happen in one order: the user message is   *)
(* appended, the window is read, the LLM is called, after an LLM success   *)
(* the usage is recorded, the assistant message is appended, the reply is  *)
(* returned. The LLM is not called before the user message is persisted,   *)
(* and a usage record of the turn is persisted before the turn's           *)
(* assistant message.                                                      *)
TurnStepsInOrder == []StepsInOrder /\ [][TurnStepsInOrderStep]_vars

FullTurnDone ==
    \E w \in Workers :
        /\ steps[w] = <<"append_user", "window", "llm_ok", "usage",
                        "append_assistant", "return">>
        /\ pc[w] = "idle"
        /\ \E v \in Workers : v # w /\ Has(v, "usage_failed")

ReadStep ==
    \/ last_read' # last_read
    \/ \E w \in Workers : pc[w] = "window" /\ pc'[w] # "window"

(* C17: the reads change nothing: a step that is a window read             *)
(* (get_conversation_messages) or a summary read (get_usage_summary)       *)
(* leaves the messages table, the usage table and the id counters as they  *)
(* were, whatever the other turns are doing.                               *)
ReadsChangeNothing ==
    [][ReadStep => /\ messages' = messages
                   /\ usage' = usage
                   /\ sqlite_sequence' = sqlite_sequence]_vars

ReadsAmongTurns ==
    /\ last_read.op = "summary"
    /\ last_read.at = 1
    /\ Len(usage) = 2
    /\ \E w \in Workers : pc[w] = "add_assistant" /\ Has(w, "window")

TimedOutTurnEnds ==
    \A w \in Workers :
        (/\ pc[w] # "idle"
         /\ pc'[w] = "idle"
         /\ openai_response[w] = [ok |-> FALSE, detail |-> "timeout"]) =>
            \/ /\ response'[w] = [status |-> HTTP_OK,
                                  body |-> "Error: timeout", error |-> ""]
               /\ RoleContent(messages'[Len(messages')]) =
                      [role |-> "assistant", content |-> "Error: timeout"]
            \/ /\ response'[w].status = HTTP_ERROR
               /\ response'[w].error \in StorageErrors

TurnFinished(w) ==
    /\ pc[w] = "idle"
    /\ response[w].status \in {HTTP_OK, HTTP_ERROR}

(* C18: under fair scheduling, with an LLM call that always answers or     *)
(* raises, every turn that has started finishes, with a 200 response       *)
(* carrying a text or with a 500 response for a storage error; a turn      *)
(* whose LLM call timed out ends by storing "Error: timeout" and           *)
(* returning it, or with a storage error.                                  *)
EveryTurnFinishes ==
    /\ \A w \in LiveWorkers : (pc[w] # "idle") ~> TurnFinished(w)
    /\ [][TimedOutTurnEnds]_vars

TimedOutTurnFinished ==
    \E w \in Workers :
        /\ pc[w] = "idle"
        /\ printed[w] = <<"timeout">>
        /\ response[w].status = HTTP_OK
        /\ \E v \in Workers :
               /\ v # w
               /\ pc[v] = "idle"
               /\ response[v].status = HTTP_ERROR
               /\ Has(v, "llm_fail")

InRecording ==
    Cardinality({w \in Workers :
                     pc[w] \in {"record_usage", "record_usage_commit"}})

Count(s, step) == Cardinality({i \in 1..Len(s) : s[i] = step})

OneUsageRecordPerTurn ==
    \A w \in Workers :
        /\ Count(steps[w], "usage") <= 1
        /\ Has(w, "usage") => Has(w, "llm_ok")
        /\ Has(w, "llm_fail") => ~Has(w, "usage")

UsageRecordStep ==
    Len(usage') # Len(usage) =>
        /\ Len(usage') = Len(usage) + 1
        /\ \E w \in Workers :
               /\ pc[w] = "record_usage_commit"
               /\ pc'[w] = "add_assistant"
               /\ steps[w][Len(steps[w])] = "llm_ok"
               /\ steps'[w] = Append(steps[w], "usage")

(* C19, as the claim has it: in every reachable state the number of usage  *)
(* records is at most the number of LLM calls that returned successfully,  *)
(* and is equal to it when no usage persistence failure has occurred.      *)
UsageRecordsEqualCalls ==
    /\ Len(usage) <= audit.llm_ok
    /\ audit.usage_failed = 0 => Len(usage) = audit.llm_ok

(* C19: a turn writes at most one usage record, and none when its LLM call *)
(* fails; the number of usage records is at most the number of LLM calls   *)
(* that returned successfully, and is equal to it when no usage            *)
(* persistence failure has occurred and no turn is between the return of   *)
(* its LLM call and the end of its record_usage.                           *)
UsageRecordsCounted ==
    /\ [](/\ OneUsageRecordPerTurn
          /\ Len(usage) <= audit.llm_ok
          /\ (audit.usage_failed = 0 /\ InRecording = 0) =>
                 Len(usage) = audit.llm_ok)
    /\ [][UsageRecordStep]_vars

UsageCountedAfterLLMFailure ==
    /\ audit.llm_ok >= 1
    /\ Len(usage) = audit.llm_ok
    /\ audit.usage_failed = 0
    /\ InRecording = 0
    /\ \E w \in Workers : pc[w] = "idle" /\ Has(w, "llm_fail")

TurnAppendsTwoStep ==
    /\ Len(messages') # Len(messages) =>
           /\ Len(messages') = Len(messages) + 1
           /\ \E w \in Workers :
                  \/ /\ pc[w] = "add_user_commit"
                     /\ steps'[w] = <<"append_user">>
                     /\ messages'[Len(messages')].role = "user"
                  \/ /\ pc[w] = "add_assistant_commit"
                     /\ pc'[w] = "idle"
                     /\ response'[w].status = HTTP_OK
    /\ \A w \in Workers :
           (pc[w] # "idle" /\ pc'[w] = "idle"
            /\ response'[w].status = HTTP_OK) =>
               /\ Count(steps'[w], "append_user") = 1
               /\ Count(steps'[w], "append_assistant") = 1
               /\ Len(messages') = Len(messages) + 1
               /\ RoleContent(messages'[Len(messages')]) =
                      [role |-> "assistant", content |-> response'[w].body]
               /\ userRowId[w] \in 1..Len(messages)
               /\ RoleContent(messages[userRowId[w]]) =
                      [role |-> "user", content |-> user_input[w]]
               /\ audit'.returned = audit.returned + 1

Alternates ==
    \A i \in 1..Len(messages) :
        messages[i].role = IF i % 2 = 1 THEN "user" ELSE "assistant"

UserRowsOfOpenTurns ==
    Cardinality({w \in Workers : pc[w] # "idle" /\ Has(w, "append_user")})

SequentialLog ==
    (~audit.overlapped /\ ~audit.storage_failed) =>
        /\ Alternates
        /\ Len(messages) = 2 * audit.returned + UserRowsOfOpenTurns
        /\ (\A w \in Workers : pc[w] = "idle") =>
               Len(messages) = 2 * audit.returned

(* C20: a turn that returns a reply has appended exactly two messages: its *)
(* user message and, later, as the last row at its return, an assistant    *)
(* message whose content is the returned text. While the turns have run    *)
(* one after another with no storage failure, the log alternates user,     *)
(* assistant from a user message on, and between two turns its length is   *)
(* twice the number of turns that returned (one more while a turn is       *)
(* between its two appends).                                               *)
TurnsAppendPairs == []SequentialLog /\ [][TurnAppendsTwoStep]_vars

SequentialTurnsDone ==
    /\ ~audit.overlapped
    /\ ~audit.storage_failed
    /\ audit.returned = 2
    /\ Len(messages) = 4
    /\ \A w \in Workers : pc[w] = "idle"

(* With concurrent turns two user messages can be adjacent in the log. *)
TwoUserMessagesAdjacent ==
    /\ audit.overlapped
    /\ ~audit.storage_failed
    /\ audit.returned = 2
    /\ \E i \in 1..(Len(messages) - 1) :
           messages[i].role = "user" /\ messages[i + 1].role = "user"

====
